---- MODULE Spec2Model ----
(***************************************************************************)
(* A model of orcaslicer_nozzle_variant_maker.py: the profile scanner      *)
(* (get_profile_groups), the transformer (modify_profile_data), the batch  *)
(* converter (process_profiles) and the backup/convert sequencing of main. *)
(*                                                                         *)
(* Python strings are sequences of one-character strings.  Python objects  *)
(* live in two heaps (dicts, lists) indexed by address, so that copying    *)
(* and aliasing are distinguishable.                                       *)
(***************************************************************************)
EXTENDS Integers, Sequences, FiniteSets, TLC

VARIABLES
    \* ---- modify_profile_data ----
    dicts,          \* heap of dict objects: address -> [Keys -> value]
    lists,          \* heap of list objects: address -> Seq(value)
    data,           \* the argument `data`: [k |-> "dict" | "list", a |-> address]
    out,            \* outcome of the call: [status, exc, a]
    \* ---- get_profile_groups ----
    scan_exists,    \* does profile_dir exist
    scan_dir,       \* the file names in profile_dir
    scan_out,       \* outcome of the call: [status, exc, groups]
    \* ---- process_profiles / main ----
    fs,             \* profile_base: file name -> file content
    source_size,
    target_size,
    pc,             \* position in main / process_profiles
    profile_files,  \* matched files the loop has not visited yet
    results,        \* {'success', 'skipped', 'errors'} of the current call
    ret,            \* outcome of the last finished process_profiles call
    prev,           \* outcome of the process_profiles call before that one
    backup,         \* state of backup_profiles in this session
    run,            \* number of the session (program invocation)
    fs0,            \* history: fs when process_profiles was last called
    writes          \* history: the paths the current call opened for writing

xvars == <<dicts, lists, data, out>>
svars == <<scan_exists, scan_dir, scan_out>>
bvars == <<fs, source_size, target_size, pc, profile_files, results, ret, prev,
           backup, run, fs0, writes>>
vars == <<dicts, lists, data, out, scan_exists, scan_dir, scan_out,
          fs, source_size, target_size, pc, profile_files, results, ret, prev,
          backup, run, fs0, writes>>

(***************************************************************************)
(* Strings                                                                 *)
(***************************************************************************)
Empty == <<>>
S04 == <<"0", ".", "4">>
S08 == <<"0", ".", "8">>
S104 == <<"1", "0", ".", "4">>
JsonExt == <<".", "j", "s", "o", "n">>
DefaultVariant == <<"d", "e", "f", "a", "u", "l", "t">>
IdPrefix == <<"P", "F", "U", "S">>
HexDigits == <<"0", "1", "2", "3", "4", "5", "6", "7", "8", "9",
               "a", "b", "c", "d", "e", "f">>
Digits == {"0", "1", "2", "3", "4", "5", "6", "7", "8", "9"}

Drop(s, n) == SubSeq(s, n + 1, Len(s))
StartsWith(s, p) == Len(p) <= Len(s) /\ SubSeq(s, 1, Len(p)) = p
EndsWith(s, p) == Len(p) <= Len(s) /\ SubSeq(s, Len(s) - Len(p) + 1, Len(s)) = p
Contains(s, sub) ==
    \E i \in 1..(Len(s) - Len(sub) + 1) : SubSeq(s, i, i + Len(sub) - 1) = sub

\* str.replace(old, new): every non-overlapping occurrence, left to right
RECURSIVE Replace(_, _, _)
Replace(s, old, new) ==
    IF old = Empty
    THEN IF s = Empty THEN new
         ELSE new \o <<Head(s)>> \o Replace(Tail(s), old, new)
    ELSE IF s = Empty THEN Empty
    ELSE IF StartsWith(s, old)
         THEN new \o Replace(Drop(s, Len(old)), old, new)
         ELSE <<Head(s)>> \o Replace(Tail(s), old, new)

(***************************************************************************)
(* Values and heaps                                                        *)
(***************************************************************************)
Keys == {"name", "compatible_printers", "filament_settings_id", "other"}
KeyOrder == <<"name", "compatible_printers", "filament_settings_id", "other">>

V(k, s, a) == [k |-> k, s |-> s, a |-> a]
Str(s) == V("str", s, 0)
Num == V("int", Empty, 0)
Ref(a) == V("list", Empty, a)

NewAddr(h) == Len(h) + 1
Alloc(h, obj) == Append(h, obj)

\* JSON text of a file, as the value it denotes:
\*   [top |-> "invalid" | "dict" | "list", f |-> [Keys -> jvalue]]
\* jvalue = [k |-> "absent" | "str" | "int" | "list", s |-> chars, items |-> Seq(value)]
JV(k, s, items) == [k |-> k, s |-> s, items |-> items]
JAbsent == JV("absent", Empty, <<>>)
JStr(s) == JV("str", s, <<>>)
JNum == JV("int", Empty, <<>>)
JList(items) == JV("list", Empty, items)
NoFields == [key \in Keys |-> JAbsent]
InvalidJson == [top |-> "invalid", f |-> NoFields]
JDict(f) == [top |-> "dict", f |-> f]
JTopList == [top |-> "list", f |-> NoFields]

\* number of list-valued fields among the first n keys of KeyOrder
RECURSIVE ListsBefore(_, _)
ListsBefore(f, n) ==
    IF n = 0 THEN 0
    ELSE ListsBefore(f, n - 1) + (IF f[KeyOrder[n]].k = "list" THEN 1 ELSE 0)

KeyIndex(key) == CHOOSE i \in 1..Len(KeyOrder) : KeyOrder[i] = key

\* json.load: builds fresh objects; every list gets an address of its own
json_load(j) ==
    IF j.top = "invalid" THEN [status |-> "raised", exc |-> "JSONDecodeError",
                               dicts |-> <<>>, lists |-> <<>>, data |-> V("none", Empty, 0)]
    ELSE IF j.top = "list" THEN [status |-> "returned", exc |-> "",
                               dicts |-> <<>>, lists |-> <<Empty>>, data |-> V("list", Empty, 1)]
    ELSE LET nl == ListsBefore(j.f, Len(KeyOrder))
             keyOf(a) == CHOOSE key \in Keys :
                            j.f[key].k = "list" /\ ListsBefore(j.f, KeyIndex(key)) = a
             d == [key \in Keys |->
                     IF j.f[key].k = "list" THEN Ref(ListsBefore(j.f, KeyIndex(key)))
                     ELSE V(j.f[key].k, j.f[key].s, 0)]
         IN [status |-> "returned", exc |-> "",
             dicts |-> <<d>>,
             lists |-> [a \in 1..nl |-> j.f[keyOf(a)].items],
             data |-> V("dict", Empty, 1)]

\* json.dump of the dict at address a
json_dump(ds, ls, a) ==
    JDict([key \in Keys |->
             IF ds[a][key].k = "list" THEN JList(ls[ds[a][key].a])
             ELSE JV(ds[a][key].k, ds[a][key].s, <<>>)])

(***************************************************************************)
(* uuid.uuid4().hex                                                        *)
(***************************************************************************)
UuidHex == { [i \in 1..32 |-> HexDigits[((i * m) % 16) + 1]] : m \in {3, 7} }

(***************************************************************************)
(* modify_profile_data                                                     *)
(***************************************************************************)
Outcome(ds, ls, status, exc, a) ==
    [dicts |-> ds, lists |-> ls, status |-> status, exc |-> exc, a |-> a]

\* a slip: `modified = data` instead of `data.copy()`
data_alias(ds, a) == [dicts |-> ds, a |-> a]

\* modified = data.copy()   (shallow: the lists are shared)
data_copy(ds, a) == [dicts |-> Alloc(ds, ds[a]), a |-> NewAddr(ds)]

SetField(ds, a, key, val) == [ds EXCEPT ![a] = [@ EXCEPT ![key] = val]]

\* [printer.replace(source_size, target_size) for printer in original_printers]
\* over the elements `elems`; an element that is no string has no .replace
ReplaceAll(elems, src, tgt) ==
    [i \in 1..Len(elems) |-> Str(Replace(elems[i].s, src, tgt))]
AllStr(elems) == \A i \in 1..Len(elems) : elems[i].k = "str"
Chars(s) == [i \in 1..Len(s) |-> Str(<<s[i]>>)]

\* data.get('filament_settings_id', [''])[0]: the exception it raises, or ""
first_id_exc(ls, v) ==
    CASE v.k = "absent" -> ""
      [] v.k = "list" -> IF ls[v.a] = <<>> THEN "IndexError" ELSE ""
      [] v.k = "str" -> IF v.s = Empty THEN "IndexError" ELSE ""
      [] OTHER -> "TypeError"

\* lines 267-272
modify_id(ds, ls, d, m, hex) ==
    LET exc == first_id_exc(ls, ds[d]["filament_settings_id"])
        new_id == IdPrefix \o SubSeq(hex, 1, 16)
    IN IF exc # "" THEN Outcome(ds, ls, "raised", exc, 0)
       ELSE Outcome(SetField(ds, m, "filament_settings_id", Ref(NewAddr(ls))),
                    Alloc(ls, <<Str(new_id)>>), "returned", "", m)

\* lines 259-265
modify_printers(ds, ls, d, m, src, tgt, hex) ==
    LET p == ds[m]["compatible_printers"]
    IN CASE p.k = "absent" -> modify_id(ds, ls, d, m, hex)
         [] p.k = "list" ->
              IF AllStr(ls[p.a])
              THEN modify_id(SetField(ds, m, "compatible_printers", Ref(NewAddr(ls))),
                             Alloc(ls, ReplaceAll(ls[p.a], src, tgt)), d, m, hex)
              ELSE Outcome(ds, ls, "raised", "AttributeError", 0)
         [] p.k = "str" ->
              modify_id(SetField(ds, m, "compatible_printers", Ref(NewAddr(ls))),
                        Alloc(ls, ReplaceAll(Chars(p.s), src, tgt)), d, m, hex)
         [] OTHER -> Outcome(ds, ls, "raised", "TypeError", 0)

\* lines 250-275; `hex` is uuid.uuid4().hex
modify_profile_data(ds, ls, dat, src, tgt, hex) ==
    IF dat.k = "list"
    THEN \* list.copy() succeeds, list has no .get
         Outcome(ds, Alloc(ls, ls[dat.a]), "raised", "AttributeError", 0)
    ELSE LET c == data_copy(ds, dat.a)
             n == c.dicts[dat.a]["name"]
         IN CASE n.k = "absent" ->
                   modify_printers(SetField(c.dicts, c.a, "name", Str(Empty)),
                                   ls, dat.a, c.a, src, tgt, hex)
              [] n.k = "str" ->
                   modify_printers(SetField(c.dicts, c.a, "name",
                                            Str(Replace(n.s, src, tgt))),
                                   ls, dat.a, c.a, src, tgt, hex)
              [] OTHER -> Outcome(c.dicts, ls, "raised", "AttributeError", 0)

(***************************************************************************)
(* The transformer on its own: Init draws a parsed record and a size pair, *)
(* the one action calls modify_profile_data on it.                         *)
(***************************************************************************)
SizePairs == {<<S04, S08>>, <<S04, S104>>, <<S04, S04>>}

NameSamples == {JAbsent, JStr(<<"P", " ">> \o S04 \o S04), JNum}
PrinterSamples == {JAbsent, JList(<<Str(<<"X">> \o S04), Str(<<"Y">>)>>), JList(<<>>),
                   JList(<<Num>>), JStr(S04), JNum}
IdSamples == {JAbsent, JList(<<Str(<<"i", "d">>)>>), JList(<<>>), JNum,
              JStr(Empty), JStr(<<"i", "d">>)}
OtherSamples == {JAbsent, JList(<<Str(S04)>>)}
TransformInputs ==
    {JTopList} \cup
    { JDict([key \in Keys |->
               CASE key = "name" -> n
                 [] key = "compatible_printers" -> p
                 [] key = "filament_settings_id" -> i
                 [] OTHER -> o]) :
        n \in NameSamples, p \in PrinterSamples, i \in IdSamples, o \in OtherSamples }

NoOut == [status |-> "none", exc |-> "", a |-> 0]
NoScan == [status |-> "none", exc |-> "", groups |-> <<>>]
NoRet == [status |-> "none", exc |-> "", success |-> 0, skipped |-> 0, errors |-> 0]
ZeroResults == [success |-> 0, skipped |-> 0, errors |-> 0]

IdleTransform ==
    /\ dicts = <<>> /\ lists = <<>> /\ data = V("none", Empty, 0) /\ out = NoOut
IdleScan ==
    /\ scan_exists = FALSE /\ scan_dir = {} /\ scan_out = NoScan
IdleBatch ==
    /\ fs = <<>> /\ fs0 = <<>> /\ source_size = Empty /\ target_size = Empty
    /\ pc = "idle" /\ profile_files = {} /\ results = ZeroResults
    /\ ret = NoRet /\ prev = NoRet /\ backup = "none" /\ run = 0 /\ writes = <<>>

InitTransform ==
    /\ \E j \in TransformInputs :
          LET h == json_load(j)
          IN dicts = h.dicts /\ lists = h.lists /\ data = h.data
    /\ out = NoOut
    /\ \E sz \in SizePairs : source_size = sz[1] /\ target_size = sz[2]
    /\ IdleScan
    /\ fs = <<>> /\ fs0 = <<>> /\ pc = "idle" /\ profile_files = {}
    /\ results = ZeroResults /\ ret = NoRet /\ prev = NoRet /\ backup = "none"
    /\ run = 0 /\ writes = <<>>

ModifyProfileData ==
    /\ out.status = "none"
    /\ data.k # "none"
    /\ \E hex \in UuidHex :
          LET r == modify_profile_data(dicts, lists, data, source_size, target_size, hex)
          IN /\ dicts' = r.dicts
             /\ lists' = r.lists
             /\ out' = [status |-> r.status, exc |-> r.exc, a |-> r.a]
    /\ UNCHANGED <<data, svars, bvars>>

NextTransform == ModifyProfileData
SpecTransform == InitTransform /\ [][NextTransform]_vars

(***************************************************************************)
(* Claims about modify_profile_data (checked under SpecTransform)          *)
(***************************************************************************)
\* the list object a field of the dict at address a refers to
FieldList(ds, ls, a, key) == ls[ds[a][key].a]

\* C5: modify_profile_data never mutates its input record: every dict and
\* every list that existed before the call (the input mapping and the lists
\* of its compatible_printers and filament_settings_id among them) is the
\* same after the call, whether the call returns or raises, and the record
\* it returns is a mapping that did not exist before the call.
C5_InputNotMutated ==
    [][ /\ \A a \in DOMAIN dicts : a \in DOMAIN dicts' /\ dicts'[a] = dicts[a]
        /\ \A a \in DOMAIN lists : a \in DOMAIN lists' /\ lists'[a] = lists[a]
        /\ (out'.status = "returned" /\ out.status = "none")
              => out'.a \notin DOMAIN dicts ]_vars

\* a call returned a record whose name and printers differ from the input's
C5_Witness ==
    /\ out.status = "returned"
    /\ data.k = "dict"
    /\ dicts[data.a]["name"].k = "str"
    /\ dicts[out.a]["name"].s # dicts[data.a]["name"].s
    /\ dicts[data.a]["compatible_printers"].k = "list"
    /\ FieldList(dicts, lists, out.a, "compatible_printers")
          # FieldList(dicts, lists, data.a, "compatible_printers")
    /\ dicts[data.a]["filament_settings_id"].k = "list"

IsHex(c) == \E i \in 1..Len(HexDigits) : HexDigits[i] = c

\* the filament_settings_id of the dict at address a is a one-element list
\* holding "PFUS" followed by 16 hexadecimal characters
GeneratedId(ds, ls, a) ==
    /\ ds[a]["filament_settings_id"].k = "list"
    /\ LET l == FieldList(ds, ls, a, "filament_settings_id")
       IN /\ Len(l) = 1
          /\ l[1].k = "str"
          /\ Len(l[1].s) = Len(IdPrefix) + 16
          /\ StartsWith(l[1].s, IdPrefix)
          /\ \A i \in (Len(IdPrefix) + 1)..Len(l[1].s) : IsHex(l[1].s[i])

\* the input's name and compatible_printers are of the documented types
PlainNameAndPrinters(ds, ls, a) ==
    /\ ds[a]["name"].k \in {"absent", "str"}
    /\ \/ ds[a]["compatible_printers"].k = "absent"
       \/ /\ ds[a]["compatible_printers"].k = "list"
          /\ AllStr(FieldList(ds, ls, a, "compatible_printers"))

\* C6: for every input record, whatever its filament_settings_id was (a
\* non-empty list, an empty list, a non-list value, or absent), the call
\* returns a record whose filament_settings_id is a new one-element list
\* holding "PFUS" followed by 16 hexadecimal characters.
C6_AlwaysGeneratedId ==
    (out.status # "none" /\ data.k = "dict" /\ PlainNameAndPrinters(dicts, lists, data.a))
        => /\ out.status = "returned"
           /\ GeneratedId(dicts, lists, out.a)
           /\ dicts[out.a]["filament_settings_id"] # dicts[data.a]["filament_settings_id"]

(***************************************************************************)
(* get_profile_groups                                                      *)
(***************************************************************************)
IndexOf(s, c) == CHOOSE i \in 1..Len(s) : s[i] = c /\ \A j \in 1..(i - 1) : s[j] # c
HasChar(s, c) == \E i \in 1..Len(s) : s[i] = c
LastIndexOf(s, c) == CHOOSE i \in 1..Len(s) : s[i] = c /\ \A j \in (i + 1)..Len(s) : s[j] # c

\* PurePath.stem: the name without its last suffix; a leading or a trailing
\* dot starts no suffix
Stem(name) ==
    IF ~HasChar(name, ".") THEN name
    ELSE LET i == LastIndexOf(name, ".")
         IN IF i > 1 /\ i < Len(name) THEN SubSeq(name, 1, i - 1) ELSE name

\* str.split(sep) for a one-character separator: every separator splits
RECURSIVE Split(_, _)
Split(s, c) ==
    IF ~HasChar(s, c) THEN <<s>>
    ELSE <<SubSeq(s, 1, IndexOf(s, c) - 1)>> \o Split(Drop(s, IndexOf(s, c)), c)

Space == " "
RECURSIVE LStrip(_)
LStrip(s) == IF s # Empty /\ Head(s) = Space THEN LStrip(Tail(s)) ELSE s
RECURSIVE RStrip(_)
RStrip(s) ==
    IF s # Empty /\ s[Len(s)] = Space THEN RStrip(SubSeq(s, 1, Len(s) - 1)) ELSE s
Strip(s) == RStrip(LStrip(s))

\* str.split(): the maximal runs of non-whitespace characters
RECURSIVE WordLen(_)
WordLen(s) == IF s = Empty \/ Head(s) = Space THEN 0 ELSE 1 + WordLen(Tail(s))
RECURSIVE Words(_)
Words(s) ==
    LET t == LStrip(s)
    IN IF t = Empty THEN <<>>
       ELSE <<SubSeq(t, 1, WordLen(t))>> \o Words(Drop(t, WordLen(t)))

\* y.replace('.', '').isdigit()
LooksNumeric(y) ==
    LET d == Replace(y, <<".">>, Empty)
    IN d # Empty /\ \A i \in 1..Len(d) : d[i] \in Digits

RECURSIVE CountChar(_, _)
CountChar(s, c) ==
    IF s = Empty THEN 0 ELSE (IF Head(s) = c THEN 1 ELSE 0) + CountChar(Tail(s), c)

\* float(y) of a string of digits and dots: ValueError with more than one dot
FloatOk(y) == CountChar(y, ".") <= 1

DigitVal(c) == CHOOSE n \in 0..9 : HexDigits[n + 1] = c
RECURSIVE IntVal(_)
IntVal(d) == IF d = Empty THEN 0 ELSE 10 * IntVal(SubSeq(d, 1, Len(d) - 1)) + DigitVal(d[Len(d)])
RECURSIVE Pow10(_)
Pow10(n) == IF n = 0 THEN 1 ELSE 10 * Pow10(n - 1)

\* float(y) as the exact decimal [n |-> digits, f |-> number of fraction digits]
Float(y) ==
    [n |-> IntVal(Replace(y, <<".">>, Empty)),
     f |-> IF HasChar(y, ".") THEN Len(y) - IndexOf(y, ".") ELSE 0]
FloatLess(x, y) == x.n * Pow10(y.f) < y.n * Pow10(x.f)
FloatEq(x, y) == x.n * Pow10(y.f) = y.n * Pow10(x.f)

\* the sort key of line 110: [float(y) for y in x.split() if ...]
NumericWords(x) == SelectSeq(Words(x), LooksNumeric)
KeyOk(x) == \A i \in 1..Len(NumericWords(x)) : FloatOk(NumericWords(x)[i])
SortKey(x) == [i \in 1..Len(NumericWords(x)) |-> Float(NumericWords(x)[i])]

\* list < list: lexicographic, a proper prefix is smaller
RECURSIVE KeyLess(_, _)
KeyLess(k1, k2) ==
    IF k2 = <<>> THEN FALSE
    ELSE IF k1 = <<>> THEN TRUE
    ELSE IF FloatLess(Head(k1), Head(k2)) THEN TRUE
    ELSE IF FloatEq(Head(k1), Head(k2)) THEN KeyLess(Tail(k1), Tail(k2))
    ELSE FALSE

\* list.sort(key=...) is stable: x goes before the first element whose key is greater
RECURSIVE InsertSorted(_, _)
InsertSorted(sorted, x) ==
    IF sorted = <<>> THEN <<x>>
    ELSE IF KeyLess(SortKey(x), SortKey(Head(sorted))) THEN <<x>> \o sorted
    ELSE <<Head(sorted)>> \o InsertSorted(Tail(sorted), x)
RECURSIVE SortVariants(_)
SortVariants(l) ==
    IF l = <<>> THEN <<>>
    ELSE InsertSorted(SortVariants(SubSeq(l, 1, Len(l) - 1)), l[Len(l)])

\* lines 103-105
base_material(name) == Strip(Split(Stem(name), "@")[1])
variant(name) ==
    LET parts == Split(Stem(name), "@")
    IN IF Len(parts) > 1 THEN Strip(parts[2]) ELSE DefaultVariant

\* lines 102-106 over the files in the order the directory yields them
RECURSIVE Collect(_)
Collect(order) ==
    IF order = <<>> THEN <<>>
    ELSE LET g == Collect(SubSeq(order, 1, Len(order) - 1))
             f == order[Len(order)]
             m == base_material(f)
         IN IF m \in DOMAIN g
            THEN [g EXCEPT ![m] = Append(@, variant(f))]
            ELSE [k \in DOMAIN g \cup {m} |-> IF k = m THEN <<variant(f)>> ELSE g[k]]

\* Path.glob('*.json'): nothing when the directory does not exist
GlobJson(exists, names) ==
    IF exists THEN {n \in names : EndsWith(n, JsonExt)} ELSE {}

Orders(S) ==
    {o \in [1..Cardinality(S) -> S] : \A i, j \in 1..Cardinality(S) : i # j => o[i] # o[j]}

\* lines 97-117, for one directory order
get_profile_groups(order) ==
    LET g == Collect(order)
    IN IF \A m \in DOMAIN g : \A i \in 1..Len(g[m]) : KeyOk(g[m][i])
       THEN [status |-> "returned", exc |-> "",
             groups |-> [m \in DOMAIN g |-> SortVariants(g[m])]]
       ELSE [status |-> "raised", exc |-> "ValueError", groups |-> <<>>]

RECURSIVE SubsetsUpTo(_, _)
SubsetsUpTo(S, n) ==
    IF n = 0 THEN {{}}
    ELSE LET P == SubsetsUpTo(S, n - 1) IN P \cup {p \cup {x} : p \in P, x \in S}

(***************************************************************************)
(* The scanner on its own: Init draws a directory, the one action calls    *)
(* get_profile_groups on it.                                               *)
(***************************************************************************)
ScanMaxFiles == 3
ScanMaterials == {<<"P">>, <<"P", " ">>, <<"Q">>}
ScanVariants == {Empty, <<"@", "4">>, <<"@", " ", "8", " ">>, <<"@", "4", "@", "8">>,
                 <<"@", "4", ".", ".">>, <<"@", "x", " ", "1", "0">>}
ScanNames ==
    {m \o v \o JsonExt : m \in ScanMaterials, v \in ScanVariants}
        \cup {<<"P", "@", "4", ".", "t", "x", "t">>}

InitScan ==
    /\ scan_exists \in BOOLEAN
    /\ scan_dir \in SubsetsUpTo(ScanNames, ScanMaxFiles)
    /\ (~scan_exists => scan_dir = {})
    /\ scan_out = NoScan
    /\ IdleTransform
    /\ IdleBatch

GetProfileGroups ==
    /\ scan_out.status = "none"
    /\ \E order \in Orders(GlobJson(scan_exists, scan_dir)) :
          scan_out' = get_profile_groups(order)
    /\ UNCHANGED <<scan_exists, scan_dir, xvars, bvars>>

NextScan == GetProfileGroups
SpecScan == InitScan /\ [][NextScan]_vars

(***************************************************************************)
(* Claims about get_profile_groups (checked under SpecScan)                *)
(***************************************************************************)
\* C7: called on a directory that does not exist, get_profile_groups raises
\* a directory-not-found failure; it returns no grouping, empty or not.
C7_MissingDirectoryRaises ==
    (scan_out.status # "none" /\ ~scan_exists)
        => scan_out.status = "raised" /\ scan_out.exc = "FileNotFoundError"

\* the whole trimmed remainder of the stem after its first '@', or 'default'
RestLabel(name) ==
    LET s == Stem(name)
    IN IF HasChar(s, "@") THEN Strip(Drop(s, IndexOf(s, "@"))) ELSE DefaultVariant
FirstPart(name) ==
    LET s == Stem(name)
    IN IF HasChar(s, "@") THEN Strip(SubSeq(s, 1, IndexOf(s, "@") - 1)) ELSE Strip(s)
Count(l, x) == Cardinality({i \in 1..Len(l) : l[i] = x})

\* C10: the base name is split on '@' into at most two parts: the trimmed
\* text before the first '@' is the material key, the whole trimmed remainder
\* after it (further '@' included) is the variant label, 'default' without
\* '@'; the grouping has exactly one entry per distinct material key, and
\* that entry holds one variant label per file sharing the key.
C10_TwoPartSplit ==
    scan_out.status = "returned" =>
        LET files == GlobJson(scan_exists, scan_dir)
            g == scan_out.groups
        IN /\ DOMAIN g = {FirstPart(f) : f \in files}
           /\ \A m \in DOMAIN g :
                 /\ Len(g[m]) = Cardinality({f \in files : FirstPart(f) = m})
                 /\ \A f \in files :
                       FirstPart(f) = m =>
                          Count(g[m], RestLabel(f))
                             = Cardinality({h \in files : FirstPart(h) = m
                                                /\ RestLabel(h) = RestLabel(f)})

(***************************************************************************)
(* process_profiles, backup_profiles and main.  The file system accepts    *)
(* every read and write of the profile directory; shutil.copytree may fail.*)
(***************************************************************************)
\* profile_base.glob(f"*{source_size}*.json")
GlobSize(names, src) ==
    {n \in names : /\ EndsWith(n, JsonExt)
                   /\ Contains(SubSeq(n, 1, Len(n) - Len(JsonExt)), src)}

\* a slip: the emptiness test left out
no_match_never(files) == FALSE

\* line 287: `if not profile_files`
no_match(files) == files = {}

\* line 301
new_path(name, src, tgt) == Replace(name, src, tgt)

\* a slip: the existence test left out
target_exists_never(f, p) == FALSE

\* line 303: new_path.exists()
target_exists(f, p) == p \in DOMAIN f

\* a slip: a skipped file counted as converted
skip_as_success(res) == [res EXCEPT !.success = @ + 1]

\* line 304
skip_file(res) == [res EXCEPT !.skipped = @ + 1]

\* a slip: the handler forgets to count
file_error_uncounted(res) == res

\* lines 316-324: both handlers count one error and go on
file_error(res) == [res EXCEPT !.errors = @ + 1]

\* lines 309-310: open(new_path, 'w'); json.dump
write_file(f, p, content) ==
    [n \in DOMAIN f \cup {p} |-> IF n = p THEN content ELSE f[n]]

\* one iteration of the loop of lines 293-324 for the file `name`
process_file(f, res, name, src, tgt, hex) ==
    LET h == json_load(f[name])
    IN IF h.status = "raised"
       THEN [fs |-> f, results |-> file_error(res), wrote |-> <<>>]
       ELSE LET m == modify_profile_data(h.dicts, h.lists, h.data, src, tgt, hex)
                p == new_path(name, src, tgt)
            IN IF m.status = "raised"
               THEN [fs |-> f, results |-> file_error(res), wrote |-> <<>>]
               ELSE IF target_exists(f, p)
               THEN [fs |-> f, results |-> skip_file(res), wrote |-> <<>>]
               ELSE [fs |-> write_file(f, p, json_dump(m.dicts, m.lists, m.a)),
                     results |-> [res EXCEPT !.success = @ + 1],
                     wrote |-> <<p>>]

\* lines 221-247: the copy of the tree, or NozzleConversionError
backup_profiles(f, copied) ==
    IF copied THEN [state |-> "done", tree |-> f]
    ELSE [state |-> "failed", tree |-> <<>>]

\* a slip: the failure of the backup swallowed
main_ignores_backup(b) == "convert"

\* lines 387-390 and 402-406: the NozzleConversionError of the backup ends main
main_after_backup(b) == IF b.state = "done" THEN "convert" ELSE "exit1"

NoBackup == [state |-> "none", tree |-> <<>>]

MaxFiles == 3
MaxRuns == 2
BatchStems == {<<"P">>, <<"P">> \o S04, <<"P">> \o S08, S04 \o S08, S08 \o S04}
BatchNames == {a \o JsonExt : a \in BatchStems}
GoodRecord ==
    JDict([key \in Keys |->
             CASE key = "name" -> JStr(<<"P", " ">> \o S04)
               [] key = "compatible_printers" -> JList(<<Str(<<"X">> \o S04)>>)
               [] key = "filament_settings_id" -> JList(<<Str(<<"i", "d">>)>>)
               [] OTHER -> JAbsent])
NumberNameRecord == JDict([NoFields EXCEPT !["name"] = JNum])
BatchContents == {GoodRecord, InvalidJson, NumberNameRecord}
BatchSizePairs == {<<S04, S08>>, <<S08, S04>>, <<S04, S04>>}

Init ==
    /\ \E d \in SubsetsUpTo(BatchNames, MaxFiles) : fs \in [d -> BatchContents]
    /\ fs0 = fs
    /\ \E sz \in BatchSizePairs : source_size = sz[1] /\ target_size = sz[2]
    /\ pc = "backup"
    /\ profile_files = {}
    /\ results = ZeroResults
    /\ ret = NoRet
    /\ prev = NoRet
    /\ backup = NoBackup
    /\ run = 1
    /\ writes = <<>>
    /\ IdleTransform
    /\ IdleScan

\* main, lines 386-387
MainBackup ==
    /\ pc = "backup"
    /\ \E copied \in BOOLEAN :
          /\ backup' = backup_profiles(fs, copied)
          /\ pc' = main_after_backup(backup_profiles(fs, copied))
    /\ UNCHANGED <<fs, fs0, source_size, target_size, profile_files, results, ret,
                   prev, run, writes, xvars, svars>>

\* process_profiles, lines 278-291
ProcessProfilesStart ==
    /\ pc = "convert"
    /\ fs0' = fs
    /\ writes' = <<>>
    /\ results' = ZeroResults
    /\ LET files == GlobSize(DOMAIN fs, source_size)
       IN IF no_match(files)
          THEN /\ ret' = [NoRet EXCEPT !.status = "raised",
                                       !.exc = "NozzleConversionError"]
               /\ pc' = "exit1"
               /\ profile_files' = {}
          ELSE /\ ret' = NoRet
               /\ pc' = "loop"
               /\ profile_files' = files
    /\ UNCHANGED <<fs, source_size, target_size, prev, backup, run, xvars, svars>>

\* process_profiles, one iteration of lines 293-324
ProcessProfilesFile ==
    /\ pc = "loop"
    /\ \E name \in profile_files, hex \in UuidHex :
          LET r == process_file(fs, results, name, source_size, target_size, hex)
          IN /\ fs' = r.fs
             /\ results' = r.results
             /\ writes' = writes \o r.wrote
             /\ profile_files' = profile_files \ {name}
    /\ UNCHANGED <<fs0, source_size, target_size, pc, ret, prev, backup, run,
                   xvars, svars>>

\* process_profiles, lines 326-327, and main to its end
ProcessProfilesReturn ==
    /\ pc = "loop"
    /\ profile_files = {}
    /\ ret' = [status |-> "returned", exc |-> "", success |-> results.success,
               skipped |-> results.skipped, errors |-> results.errors]
    /\ pc' = "exit0"
    /\ UNCHANGED <<fs, fs0, source_size, target_size, profile_files, results, prev,
                   backup, run, writes, xvars, svars>>

\* the program is started again on the same directory with the same sizes
Rerun ==
    /\ pc \in {"exit0", "exit1"}
    /\ run < MaxRuns
    /\ run' = run + 1
    /\ pc' = "backup"
    /\ backup' = NoBackup
    /\ prev' = IF ret.status # "none" THEN ret ELSE prev
    /\ ret' = NoRet
    /\ UNCHANGED <<fs, fs0, source_size, target_size, profile_files, results,
                   writes, xvars, svars>>

Next ==
    \/ MainBackup
    \/ ProcessProfilesStart
    \/ ProcessProfilesFile
    \/ ProcessProfilesReturn
    \/ Rerun

Spec == Init /\ [][Next]_vars

(***************************************************************************)
(* Claims about process_profiles and main (checked under Spec)             *)
(***************************************************************************)
Range(s) == {s[i] : i \in 1..Len(s)}
NoDuplicates(s) == \A i, j \in 1..Len(s) : i # j => s[i] # s[j]
Matched == GlobSize(DOMAIN fs0, source_size)
Target(name) == new_path(name, source_size, target_size)
Called == pc = "loop" \/ ret.status # "none"

\* C1: in any run of process_profiles every write goes to a path at which
\* no file existed immediately before the write; so no file that exists is
\* ever deleted or changed, and no path is written twice in one run, even
\* when two matched files map to the same target name.
C1_WritesOnlyNewPaths ==
    [][ /\ \A p \in DOMAIN fs : p \in DOMAIN fs' /\ fs'[p] = fs[p]
        /\ Len(writes') > Len(writes) =>
              /\ \A i \in (Len(writes) + 1)..Len(writes') : writes'[i] \notin DOMAIN fs
              /\ DOMAIN fs' \ DOMAIN fs \subseteq Range(writes')
        /\ Len(writes') <= Len(writes) => (writes' = <<>> \/ writes' = writes) /\ fs' = fs
        /\ NoDuplicates(writes') ]_vars

\* two matched files mapped to one free target: one was written, one skipped
C1_Witness ==
    /\ ret.status = "returned"
    /\ \E f, g \in Matched :
          /\ f # g
          /\ Target(f) = Target(g)
          /\ Target(f) \notin DOMAIN fs0
          /\ Target(f) \in Range(writes)
    /\ ret.success = 1
    /\ ret.skipped = 1

\* C2 as claimed: the second of two runs in a row with sizes 0.4 and 0.8
\* returns success = 0 and skipped equal to the first run's success count,
\* and writes no file.
C2_SkippedEqualsFirstSuccess ==
    (ret.status = "returned" /\ prev.status = "returned"
        /\ source_size = S04 /\ target_size = S08)
        => /\ ret.success = 0
           /\ ret.skipped = prev.success
           /\ writes = <<>>
           /\ fs = fs0

\* C2 amended: the second of two runs in a row with sizes 0.4 and 0.8
\* returns success = 0 and skipped equal to the first run's success count
\* plus the first run's skipped count, and writes no file.
C2_SecondRunSkipsAll ==
    (ret.status = "returned" /\ prev.status = "returned"
        /\ source_size = S04 /\ target_size = S08)
        => /\ ret.success = 0
           /\ ret.skipped = prev.success + prev.skipped
           /\ writes = <<>>
           /\ fs = fs0

\* a second run after a first run that converted files and skipped one
C2_Witness ==
    /\ ret.status = "returned"
    /\ prev.status = "returned"
    /\ source_size = S04 /\ target_size = S08
    /\ prev.success > 0
    /\ prev.skipped > 0
    /\ ret.skipped = prev.success + prev.skipped

\* C3: when no file name contains the source size, process_profiles raises
\* NozzleConversionError instead of returning a result, and it creates,
\* changes and deletes no file; it raises that error in no other case.
C3_NoMatchRaises ==
    /\ (Called /\ Matched = {})
          => /\ ret.status = "raised"
             /\ ret.exc = "NozzleConversionError"
             /\ fs = fs0
             /\ writes = <<>>
    /\ ret.status = "raised" => Matched = {}

\* the call raised on a directory that holds files, none of them matching
C3_Witness ==
    /\ ret.status = "raised"
    /\ \E n \in DOMAIN fs : Contains(n, target_size) /\ ~Contains(n, source_size)

Malformed == {f \in Matched : fs0[f].top = "invalid"}
Transformable(j) ==
    /\ json_load(j).status = "returned"
    /\ \A hex \in UuidHex :
          modify_profile_data(json_load(j).dicts, json_load(j).lists, json_load(j).data,
                              source_size, target_size, hex).status = "returned"
BatchOfOneError ==
    /\ ret.errors = 1
    /\ ret.success = Cardinality(Matched) - 1
    /\ ret.skipped = 0
    /\ \A f \in Matched \ Malformed : Target(f) \in DOMAIN fs

\* C4 as claimed: if exactly one of the N matched files is invalid JSON and
\* the other N-1 parse and have free target paths, the call returns
\* errors = 1, success = N-1, skipped = 0 and all N-1 targets are written.
C4_OneErrorRestConverted ==
    (/\ ret.status = "returned"
     /\ Cardinality(Malformed) = 1
     /\ \A f \in Matched \ Malformed : Target(f) \notin DOMAIN fs0)
        => BatchOfOneError

\* C4 amended: if exactly one of the N matched files is invalid JSON and the
\* other N-1 parse into records that modify_profile_data converts without
\* raising, and their target paths are free and pairwise distinct, the call
\* returns errors = 1, success = N-1, skipped = 0 and all N-1 targets are
\* written, in whatever order the files are visited.
C4_OneErrorRestConvertible ==
    (/\ ret.status = "returned"
     /\ Cardinality(Malformed) = 1
     /\ \A f \in Matched \ Malformed :
           /\ Target(f) \notin DOMAIN fs0
           /\ Transformable(fs0[f])
           /\ \A g \in Matched \ Malformed : g # f => Target(g) # Target(f))
        => BatchOfOneError

\* three matched files, one malformed, the two others converted
C4_Witness ==
    /\ ret.status = "returned"
    /\ Cardinality(Matched) = 3
    /\ Cardinality(Malformed) = 1
    /\ ret.errors = 1
    /\ ret.success = 2
    /\ Cardinality(Range(writes)) = 2

\* C8: in main the conversion starts only after backup_profiles has returned:
\* process_profiles is entered and files are written only with the backup
\* copy made, and after a failed backup the session neither calls
\* process_profiles nor writes a file.
C8_BackupBeforeConversion ==
    [][ /\ (pc # "backup" /\ (fs' # fs \/ pc' = "loop" \/ ret' # ret))
              => backup.state = "done" \/ pc' = "backup"
        /\ pc' = "convert" => backup'.state = "done"
        /\ Len(writes') > Len(writes) => (backup.state = "done" /\ backup.tree = fs0)
        /\ backup.state = "failed" => (fs' = fs /\ pc' \in {"backup", "exit1"}
                                         /\ writes' = writes) ]_vars

\* a file was written, after the backup copy of the directory was made
C8_Witness ==
    /\ backup.state = "done"
    /\ writes # <<>>
    /\ backup.tree = fs0

\* C9: for every matched file whose content parses, if a file exists at its
\* target path the iteration increments skipped (not errors, not success)
\* and writes nothing, whether or not the transformer succeeds on it.
C9_ExistingTargetSkips ==
    [][ \A f \in profile_files :
           (/\ pc = "loop"
            /\ profile_files' = profile_files \ {f}
            /\ fs[f].top # "invalid"
            /\ Target(f) \in DOMAIN fs)
              => /\ results' = [results EXCEPT !.skipped = @ + 1]
                 /\ fs' = fs ]_vars

====
